---- MODULE Spec2Model ----
(***************************************************************************)
(* A model of caffe::Blob (src/src/caffe/blob.cpp): the tensor container   *)
(* with a values buffer (data_) and a gradients buffer (diff_), each a     *)
(* reference-counted SyncedMemory mirrored between host and accelerator.   *)
(* The model is of the build with an accelerator (CPU_ONLY undefined) and  *)
(* 32-bit int_tp (USE_INDEX_64 undefined).                                 *)
(***************************************************************************)
EXTENDS Integers, Sequences, FiniteSets, TLC

VARIABLES
  dtype,       \* element type of the tensors: "float" or "double"
  alive,       \* alive[b]: tensor b is constructed and not destroyed
  shape,       \* shape_[b]
  count,       \* count_[b]
  capacity,    \* capacity_[b]
  data,        \* data_[b]: id of the values SyncedMemory, or NULL
  diff,        \* diff_[b]: id of the gradients SyncedMemory, or NULL
  shape_data,  \* number of int_tp's shape_data_[b] (the shape cache) holds;
               \* its first Len(shape[b]) entries mirror shape[b]
  net_quant,   \* net_quant_[b]: TRUE iff the tensor has a quantizer
  mem,         \* the heap of SyncedMemory objects, by id
  status,      \* "running", or how the process ended
  last,        \* the last call made: operation, tensor, argument, result
  max_count    \* history: the largest count_[b] since b was constructed

vars == <<dtype, alive, shape, count, capacity, data, diff, shape_data,
          net_quant, mem, status, last, max_count>>

----------------------------------------------------------------------------
(* Bounds of the model *)

MaxExtent == 2
MaxVal == 1

(* Program constants *)

kMaxBlobAxes == 32
INT_MAX == 2147483647

NULL == <<"null">>

Blobs == {"A", "B"}
DTypes == {"float", "double"}
Extents == 0..MaxExtent
Vals == 0..MaxVal

(* The shapes callers pass: every shape of rank <= 2 over Extents ... *)
Shapes ==
  {<<>>} \cup {<<e>> : e \in Extents}
         \cup {<<e1, e2>> : e1 \in Extents, e2 \in Extents}

(* ... and shapes at the edges of Reshape's preconditions. *)
EdgeShapes ==
  { [i \in 1..(kMaxBlobAxes + 1) |-> 1],
    <<-1>>,
    <<1, -1>>,
    <<0, -1>>,
    <<65536, 65536>>,
    <<65536, 65536, 0>>,
    <<0, 65536, 65536>>,
    <<INT_MAX, 0>> }

Sides == {"data", "diff"}

(* A SyncedMemory object is named by the tensor and side that allocated it *)
(* and a serial number, reused once the object is freed.                   *)
BufIds == Blobs \X Sides \X (0..Cardinality(Blobs))

Zeros(n) == [i \in 1..n |-> 0]

(* The contents of a caller's array of n elements: a ramp starting at v. *)
Ramp(v, n) == [i \in 1..n |-> (v + i - 1) % (MaxVal + 1)]

Min(a, b) == IF a < b THEN a ELSE b

----------------------------------------------------------------------------
(* SyncedMemory: the dual-location buffer.  One contents sequence stands   *)
(* for the valid copy; head says where it lives.                           *)

Heads == {"UNINITIALIZED", "HEAD_AT_CPU", "HEAD_AT_GPU", "SYNCED"}

FreeBuf ==
  [alloc |-> FALSE, size |-> 0, head |-> "UNINITIALIZED", vals |-> <<>>, rc |-> 0]

(* new SyncedMemory(n * sizeof(Dtype), device): n zero-initialised elements *)
NewBuf(n) ==
  [alloc |-> TRUE, size |-> n, head |-> "UNINITIALIZED", vals |-> Zeros(n), rc |-> 1]

(* the object the allocator hands out: the lowest serial not in use *)
Fresh(m, b, side) ==
  LET free == {k \in 0..Cardinality(Blobs) : ~m[<<b, side, k>>].alloc}
  IN  <<b, side, CHOOSE k \in free : \A j \in free : k <= j>>

(* shared_ptr: take a reference / drop a reference (freeing at zero) *)
Acquire(m, id) ==
  IF id = NULL THEN m ELSE [m EXCEPT ![id].rc = @ + 1]

Release(m, id) ==
  IF id = NULL THEN m
  ELSE IF m[id].rc = 1 THEN [m EXCEPT ![id] = FreeBuf]
  ELSE [m EXCEPT ![id].rc = @ - 1]

(* SyncedMemory::to_cpu / to_gpu: a transfer happens only when the valid   *)
(* copy is on the other side.                                              *)
NeedsSyncToCpu(h) == h = "HEAD_AT_GPU"
NeedsSyncToGpu(h) == h = "HEAD_AT_CPU"

to_cpu(h) ==
  CASE h = "UNINITIALIZED" -> "HEAD_AT_CPU"
    [] h = "HEAD_AT_GPU"   -> "SYNCED"
    [] OTHER               -> h

to_gpu(h) ==
  CASE h = "UNINITIALIZED" -> "HEAD_AT_GPU"
    [] h = "HEAD_AT_CPU"   -> "SYNCED"
    [] OTHER               -> h

(* head after SyncedMemory::cpu_data / mutable_cpu_data / gpu_data /       *)
(* mutable_gpu_data                                                        *)
HeadAfter(h, loc, mut) ==
  IF loc = "cpu"
  THEN (IF mut THEN "HEAD_AT_CPU" ELSE to_cpu(h))
  ELSE (IF mut THEN "HEAD_AT_GPU" ELSE to_gpu(h))

SyncsOn(h, loc) ==
  IF loc = "cpu" THEN NeedsSyncToCpu(h) ELSE NeedsSyncToGpu(h)

----------------------------------------------------------------------------
(* Records of calls and ways of ending *)

Call(op, b, arg, ret) ==
  [op |-> op, b |-> b, arg |-> arg, ret |-> ret, sync |-> FALSE, path |-> "none"]

BlobVars == <<dtype, alive, shape, count, capacity, data, diff, shape_data,
              net_quant, mem, max_count>>

(* CHECK / LOG(FATAL) / NOT_IMPLEMENTED: the process aborts *)
Fatal(op, b, arg) ==
  /\ status' = "fatal"
  /\ last' = Call(op, b, arg, "fatal")
  /\ UNCHANGED BlobVars

(* undefined behaviour: the process dies on the access, or runs on in an   *)
(* undefined state                                                         *)
Undefined(op, b, arg) ==
  /\ status' \in {"segv", "undefined"}
  /\ last' = Call(op, b, arg, "undefined")
  /\ UNCHANGED BlobVars

Handle(b, side) == IF side = "data" THEN data[b] ELSE diff[b]

Live(b) == status = "running" /\ alive[b]

----------------------------------------------------------------------------
(* Blob::Reshape *)

(* a variant of the loop that stops one axis early *)
RECURSIVE ReshapeCountSkipsLast(_, _, _)
ReshapeCountSkipsLast(S, i, cnt) ==
  IF i >= Len(S) THEN cnt
  ELSE IF S[i] < 0 THEN -1
  ELSE IF cnt # 0 /\ S[i] > INT_MAX \div cnt THEN -1
  ELSE ReshapeCountSkipsLast(S, i + 1, cnt * S[i])

(* a variant of the loop whose overflow test is strict *)
RECURSIVE ReshapeCountStrict(_, _, _)
ReshapeCountStrict(S, i, cnt) ==
  IF i > Len(S) THEN cnt
  ELSE IF S[i] < 0 THEN -1
  ELSE IF cnt # 0 /\ S[i] >= INT_MAX \div cnt THEN -1
  ELSE ReshapeCountStrict(S, i + 1, cnt * S[i])

(* the loop of lines 42-54 over axes i..Len(S), from running product cnt:  *)
(* the final count_, or -1 when a CHECK fails                              *)
RECURSIVE ReshapeCount(_, _, _)
ReshapeCount(S, i, cnt) ==
  IF i > Len(S) THEN cnt
  ELSE IF S[i] < 0 THEN -1
  ELSE IF cnt # 0 /\ S[i] > INT_MAX \div cnt THEN -1
  ELSE ReshapeCount(S, i + 1, cnt * S[i])

(* lines 37-41: the shape cache is reallocated only when too small *)
ShapeCache(old, S) == IF old < Len(S) THEN Len(S) ELSE old

(* a variant that replaces the values buffer only *)
ResetDataOnly(m, b, d, g, n) ==
  LET id1 == Fresh(m, b, "data")
      m1  == [m EXCEPT ![id1] = NewBuf(n)]
      m2  == Release(m1, d)
  IN  [mem |-> m2, data |-> id1, diff |-> g]

(* data_.reset(new SyncedMemory(n)); diff_.reset(new SyncedMemory(n)) *)
ResetBoth(m, b, d, g, n) ==
  LET id1 == Fresh(m, b, "data")
      m1  == [m EXCEPT ![id1] = NewBuf(n)]
      m2  == Release(m1, d)
      id2 == Fresh(m2, b, "diff")
      m3  == [m2 EXCEPT ![id2] = NewBuf(n)]
      m4  == Release(m3, g)
  IN  [mem |-> m4, data |-> id1, diff |-> id2]

(* a variant that reallocates whenever the count differs from capacity_ *)
GrowsOnChange(cnt, cap) == cnt # cap

(* lines 55-61: whether Reshape reallocates *)
Grows(cnt, cap) == cnt > cap

(* the members of tensor b, and the heap, as they are now *)
Current(b) ==
  [shape |-> shape[b], count |-> count[b], capacity |-> capacity[b],
   shape_data |-> shape_data[b], mem |-> mem, data |-> data[b], diff |-> diff[b]]

(* ... and after a Reshape to S, of count cnt, that passes its CHECKs *)
AfterReshape(b, S, cnt) ==
  LET r == IF Grows(cnt, capacity[b])
           THEN ResetBoth(mem, b, data[b], diff[b], cnt)
           ELSE [mem |-> mem, data |-> data[b], diff |-> diff[b]]
  IN  [shape |-> S, count |-> cnt,
       capacity |-> IF Grows(cnt, capacity[b]) THEN cnt ELSE capacity[b],
       shape_data |-> ShapeCache(shape_data[b], S),
       mem |-> r.mem, data |-> r.data, diff |-> r.diff]

(* tensor b takes the members r *)
Becomes(b, r) ==
  /\ shape' = [shape EXCEPT ![b] = r.shape]
  /\ count' = [count EXCEPT ![b] = r.count]
  /\ capacity' = [capacity EXCEPT ![b] = r.capacity]
  /\ shape_data' = [shape_data EXCEPT ![b] = r.shape_data]
  /\ data' = [data EXCEPT ![b] = r.data]
  /\ diff' = [diff EXCEPT ![b] = r.diff]
  /\ max_count' = [max_count EXCEPT ![b] = IF r.count > @ THEN r.count ELSE @]

(* the state change of a Reshape that passes its CHECKs *)
ReshapeTo(b, S, cnt) ==
  LET r == AfterReshape(b, S, cnt)
  IN  Becomes(b, r) /\ mem' = r.mem

ReshapeOk(S) == Len(S) <= kMaxBlobAxes /\ ReshapeCount(S, 1, 1) >= 0

Reshape(b, S) ==
  /\ Live(b)
  /\ IF ~ReshapeOk(S)
     THEN Fatal("Reshape", b, S)
     ELSE LET cnt == ReshapeCount(S, 1, 1)
          IN  /\ ReshapeTo(b, S, cnt)
              /\ last' = Call("Reshape", b, S, Grows(cnt, capacity[b]))
              /\ UNCHANGED <<dtype, alive, net_quant, status>>

(* Blob::Blob(shape, dev): capacity_ = 0, then Reshape(shape) *)
Construct(b, S) ==
  /\ status = "running"
  /\ ~alive[b]
  /\ IF ~ReshapeOk(S)
     THEN Fatal("Blob", b, S)
     ELSE LET cnt == ReshapeCount(S, 1, 1)
          IN  /\ alive' = [alive EXCEPT ![b] = TRUE]
              /\ ReshapeTo(b, S, cnt)
              /\ last' = Call("Blob", b, S, "void")
              /\ UNCHANGED <<dtype, net_quant, status>>

(* destruction: the tensor's references to its buffers are released *)
Destroy(b) ==
  /\ Live(b)
  /\ alive' = [alive EXCEPT ![b] = FALSE]
  /\ mem' = Release(Release(mem, data[b]), diff[b])
  /\ data' = [data EXCEPT ![b] = NULL]
  /\ diff' = [diff EXCEPT ![b] = NULL]
  /\ shape' = [shape EXCEPT ![b] = <<>>]
  /\ count' = [count EXCEPT ![b] = 0]
  /\ capacity' = [capacity EXCEPT ![b] = 0]
  /\ shape_data' = [shape_data EXCEPT ![b] = 0]
  /\ net_quant' = [net_quant EXCEPT ![b] = FALSE]
  /\ max_count' = [max_count EXCEPT ![b] = 0]
  /\ last' = Call("~Blob", b, <<>>, "void")
  /\ UNCHANGED <<dtype, status>>

----------------------------------------------------------------------------
(* Raw accessors: cpu_data, gpu_data, cpu_diff, gpu_diff and their mutable *)
(* forms.  A const accessor is followed by the caller reading the count_   *)
(* elements, a mutable one by the caller writing them.                     *)

WithSync(c, s) == [c EXCEPT !.sync = s]

(* the side whose code ran: the host or accelerator kernel or quantizer    *)
(* entry point                                                             *)
WithPath(c, p) == [c EXCEPT !.path = p]

Elems(id, n) == SubSeq(mem[id].vals, 1, n)

(* buffer contents after the elements w are stored at its start *)
Stored(old, w) == [i \in 1..Len(old) |-> IF i <= Len(w) THEN w[i] ELSE old[i]]

RawRead(op, b, side, loc) ==
  /\ Live(b)
  /\ LET h == Handle(b, side) IN
       IF h = NULL
       THEN Fatal(op, b, <<>>)
       ELSE IF count[b] > mem[h].size
       THEN Undefined(op, b, <<>>)
       ELSE /\ mem' = [mem EXCEPT ![h].head = HeadAfter(@, loc, FALSE)]
            /\ last' = WithSync(Call(op, b, <<>>, Elems(h, count[b])),
                                SyncsOn(mem[h].head, loc))
            /\ UNCHANGED <<dtype, alive, shape, count, capacity, data, diff,
                           shape_data, net_quant, status, max_count>>

RawWrite(op, b, side, loc, w) ==
  /\ Live(b)
  /\ LET h == Handle(b, side) IN
       IF h = NULL
       THEN Fatal(op, b, w)
       ELSE IF count[b] > mem[h].size
       THEN Undefined(op, b, w)
       ELSE /\ mem' = [mem EXCEPT ![h].head = HeadAfter(@, loc, TRUE),
                                  ![h].vals = Stored(@, w)]
            /\ last' = WithSync(Call(op, b, w, "void"), SyncsOn(mem[h].head, loc))
            /\ UNCHANGED <<dtype, alive, shape, count, capacity, data, diff,
                           shape_data, net_quant, status, max_count>>

cpu_data(b) == RawRead("cpu_data", b, "data", "cpu")
gpu_data(b) == RawRead("gpu_data", b, "data", "gpu")
cpu_diff(b) == RawRead("cpu_diff", b, "diff", "cpu")
gpu_diff(b) == RawRead("gpu_diff", b, "diff", "gpu")
mutable_cpu_data(b, v) == RawWrite("mutable_cpu_data", b, "data", "cpu", Ramp(v, count[b]))
mutable_gpu_data(b, v) == RawWrite("mutable_gpu_data", b, "data", "gpu", Ramp(v, count[b]))
mutable_cpu_diff(b, v) == RawWrite("mutable_cpu_diff", b, "diff", "cpu", Ramp(v, count[b]))
mutable_gpu_diff(b, v) == RawWrite("mutable_gpu_diff", b, "diff", "gpu", Ramp(v, count[b]))

----------------------------------------------------------------------------
(* set_cpu_data and set_gpu_data on a raw pointer: adopt the caller's      *)
(* storage, whose contents are Ramp(v, count_)                             *)

(* lines 136-140, 153-157: both buffers are replaced when the values       *)
(* buffer's size is not count_ elements                                    *)
SizeAdjusted(b) ==
  IF mem[data[b]].size # count[b]
  THEN ResetBoth(mem, b, data[b], diff[b], count[b])
  ELSE [mem |-> mem, data |-> data[b], diff |-> diff[b]]

SetData(op, b, v, head) ==
  LET r == SizeAdjusted(b) IN
    /\ mem' = [r.mem EXCEPT ![r.data].vals = Ramp(v, count[b]),
                            ![r.data].head = head]
    /\ data' = [data EXCEPT ![b] = r.data]
    /\ diff' = [diff EXCEPT ![b] = r.diff]
    /\ last' = Call(op, b, Ramp(v, count[b]), "void")
    /\ UNCHANGED <<dtype, alive, shape, count, capacity, shape_data, net_quant,
                   status, max_count>>

set_cpu_data(b, nonnull, v) ==
  /\ Live(b)
  /\ IF ~nonnull THEN Fatal("set_cpu_data", b, <<>>)
     ELSE IF data[b] = NULL THEN Undefined("set_cpu_data", b, <<>>)
     ELSE SetData("set_cpu_data", b, v, "HEAD_AT_CPU")

set_gpu_data(b, v) ==
  /\ Live(b)
  /\ IF data[b] = NULL THEN Undefined("set_gpu_data", b, <<>>)
     ELSE SetData("set_gpu_data", b, v, "HEAD_AT_GPU")

----------------------------------------------------------------------------
(* ShareData / ShareDiff / ShareDataBase / ShareDiffBase *)

(* a variant of the handle assignment that takes no reference *)
AssignedNoRef(m, new, old) == Release(m, old)

(* shared_ptr copy assignment: a reference to new is taken, the reference  *)
(* to old is dropped                                                       *)
Assigned(m, new, old) == Release(Acquire(m, new), old)

SizeOf(t) ==
  CASE t = "float" -> 4
    [] t = "double" -> 8
    [] t = "int16_t" -> 2
    [] OTHER -> 1

byte_count(b) == SizeOf(dtype) * count[b]

Share(op, b, o, side, sameSize) ==
  /\ Live(b)
  /\ alive[o]
  /\ IF ~sameSize
     THEN Fatal(op, b, o)
     ELSE /\ mem' = Assigned(mem, Handle(o, side), Handle(b, side))
          /\ IF side = "data"
             THEN data' = [data EXCEPT ![b] = data[o]] /\ UNCHANGED diff
             ELSE diff' = [diff EXCEPT ![b] = diff[o]] /\ UNCHANGED data
          /\ last' = Call(op, b, o, "void")
          /\ UNCHANGED <<dtype, alive, shape, count, capacity, shape_data,
                         net_quant, status, max_count>>

ShareData(b, o) == Share("ShareData", b, o, "data", count[b] = count[o])
ShareDiff(b, o) == Share("ShareDiff", b, o, "diff", count[b] = count[o])
ShareDataBase(b, o) == Share("ShareDataBase", b, o, "data", byte_count(b) = byte_count(o))
ShareDiffBase(b, o) == Share("ShareDiffBase", b, o, "diff", byte_count(b) = byte_count(o))

----------------------------------------------------------------------------
(* Update, asum_data, asum_diff, sumsq_data, sumsq_diff, scale_data,       *)
(* scale_diff for Blob<float> and Blob<double>                             *)

Abs(x) == IF x < 0 THEN -x ELSE x

RECURSIVE SumAbs(_, _)
SumAbs(w, n) == IF n = 0 THEN 0 ELSE SumAbs(w, n - 1) + Abs(w[n])

RECURSIVE Dot(_, _, _)
Dot(u, w, n) == IF n = 0 THEN 0 ELSE Dot(u, w, n - 1) + u[n] * w[n]

caffe_asum(w) == SumAbs(w, Len(w))
caffe_dot(w) == Dot(w, w, Len(w))

(* element values the model follows *)
InRange(w) == \A i \in 1..Len(w) : Abs(w[i]) <= MaxVal + 1

(* a variant of the switch that runs the host kernel on a synchronized     *)
(* buffer                                                                  *)
PathOfSyncedOnHost(h) ==
  CASE h \in {"HEAD_AT_CPU", "SYNCED"} -> "cpu"
    [] h = "HEAD_AT_GPU" -> "gpu"
    [] OTHER -> "none"

(* the switch on head(): which kernel runs *)
PathOf(h) ==
  CASE h = "HEAD_AT_CPU" -> "cpu"
    [] h \in {"HEAD_AT_GPU", "SYNCED"} -> "gpu"
    [] OTHER -> "none"

(* a variant of the null test that lets a null handle through *)
NoHandleNever(h) == FALSE

(* if (!data_) / if (!diff_) *)
NoHandle(h) == h = NULL

(* asum_data / asum_diff / sumsq_data / sumsq_diff.  A null handle that    *)
(* passed the test would be dereferenced by head().                        *)
Reduce(op, b, side, isAsum) ==
  /\ Live(b)
  /\ LET h == Handle(b, side) IN
       IF NoHandle(h)
       THEN /\ last' = Call(op, b, <<>>, 0)
            /\ UNCHANGED <<BlobVars, status>>
       ELSE IF h = NULL
       THEN Undefined(op, b, <<>>)
       ELSE LET p == PathOf(mem[h].head) IN
         IF p = "none"
         THEN /\ last' = Call(op, b, <<>>, 0)
              /\ UNCHANGED <<BlobVars, status>>
         ELSE IF count[b] > mem[h].size
         THEN Undefined(op, b, <<>>)
         ELSE LET w == Elems(h, count[b]) IN
              /\ mem' = [mem EXCEPT ![h].head = HeadAfter(@, p, FALSE)]
              /\ last' = WithPath(Call(op, b, <<>>,
                                       IF isAsum THEN caffe_asum(w) ELSE caffe_dot(w)), p)
              /\ UNCHANGED <<dtype, alive, shape, count, capacity, data, diff,
                             shape_data, net_quant, status, max_count>>

asum_data(b) == Reduce("asum_data", b, "data", TRUE)
asum_diff(b) == Reduce("asum_diff", b, "diff", TRUE)
sumsq_data(b) == Reduce("sumsq_data", b, "data", FALSE)
sumsq_diff(b) == Reduce("sumsq_diff", b, "diff", FALSE)

(* scale_data / scale_diff *)
Scale(op, b, side, f) ==
  /\ Live(b)
  /\ LET h == Handle(b, side) IN
       IF NoHandle(h)
       THEN /\ last' = Call(op, b, f, "void")
            /\ UNCHANGED <<BlobVars, status>>
       ELSE IF h = NULL
       THEN Undefined(op, b, f)
       ELSE LET p == PathOf(mem[h].head) IN
         IF p = "none"
         THEN /\ last' = Call(op, b, f, "void")
              /\ UNCHANGED <<BlobVars, status>>
         ELSE IF count[b] > mem[h].size
         THEN Undefined(op, b, f)
         ELSE LET w == [i \in 1..count[b] |-> f * mem[h].vals[i]] IN
              /\ InRange(w)
              /\ mem' = [mem EXCEPT ![h].head = HeadAfter(@, p, TRUE),
                                    ![h].vals = Stored(@, w)]
              /\ last' = WithPath(Call(op, b, f, "void"), p)
              /\ UNCHANGED <<dtype, alive, shape, count, capacity, data, diff,
                             shape_data, net_quant, status, max_count>>

scale_data(b, f) == Scale("scale_data", b, "data", f)
scale_diff(b, f) == Scale("scale_diff", b, "diff", f)

(* Update: data_ -= diff_ (axpy with alpha -1), by where data_ lives *)
Update(b) ==
  /\ Live(b)
  /\ IF data[b] = NULL
     THEN Undefined("Update", b, <<>>)
     ELSE LET p == PathOf(mem[data[b]].head) IN
       IF p = "none"
       THEN Fatal("Update", b, <<>>)
       ELSE IF diff[b] = NULL
       THEN Undefined("Update", b, <<>>)
       ELSE IF count[b] > mem[data[b]].size \/ count[b] > mem[diff[b]].size
       THEN Undefined("Update", b, <<>>)
       ELSE LET g == Elems(diff[b], count[b])
                w == [i \in 1..count[b] |-> mem[data[b]].vals[i] - g[i]]
            IN  /\ InRange(w)
                /\ mem' = [mem EXCEPT
                     ![diff[b]].head = HeadAfter(@, p, FALSE),
                     ![data[b]].head = HeadAfter(@, p, TRUE),
                     ![data[b]].vals = Stored(@, w)]
                /\ last' = WithSync(WithPath(Call("Update", b, <<>>, "void"), p),
                                    SyncsOn(mem[diff[b]].head, p))
                /\ UNCHANGED <<dtype, alive, shape, count, capacity, data, diff,
                               shape_data, net_quant, status, max_count>>

----------------------------------------------------------------------------
(* BlobProto, ShapeEquals, FromProto, ToProto                              *)

(* A message.  legacy is <<>> when none of num, channels, height, width is *)
(* set, and otherwise the four of them, an unset one reading 0.            *)
EmptyProto ==
  [legacy |-> <<>>, dims |-> <<>>, stride |-> <<>>, data_type |-> "unset",
   data |-> <<>>, double_data |-> <<>>, diff |-> <<>>, double_diff |-> <<>>,
   packed_data |-> <<>>]

(* has_num() || has_channels() || has_height() || has_width() *)
has_legacy(p) == p.legacy # <<>>

(* BlobBase::LegacyShape(index) for index in -4..-1, on a shape of rank    *)
(* <= 4: axes are counted from the end and a missing axis reads 1          *)
LegacyShape(S, index) ==
  IF index < -Len(S) THEN 1 ELSE S[Len(S) + index + 1]

ShapeEqualsOf(S, p) ==
  IF has_legacy(p)
  THEN /\ Len(S) <= 4
       /\ LegacyShape(S, -4) = p.legacy[1]
       /\ LegacyShape(S, -3) = p.legacy[2]
       /\ LegacyShape(S, -2) = p.legacy[3]
       /\ LegacyShape(S, -1) = p.legacy[4]
  ELSE S = p.dims

ShapeEquals(b, p) == ShapeEqualsOf(shape[b], p)

(* a variant that reads the shape list whatever else the message carries *)
ProtoShapeListOnly(p) == p.dims

(* lines 714-729: the shape FromProto reshapes to *)
ProtoShape(p) == IF has_legacy(p) THEN p.legacy ELSE p.dims

(* data_vec[i] = proto.double_data(i) and its like: the conversion of a    *)
(* message element to Dtype.  A float holds integers exactly up to 2^24    *)
(* and every other one above it.                                           *)
FloatExact == 16777216

Narrow(v) == IF v > FloatExact THEN (v \div 2) * 2 ELSE v

Converted(w, wide) ==
  [i \in 1..Len(w) |-> IF wide /\ dtype = "float" THEN Narrow(w[i]) ELSE w[i]]

FromProto(b, p, reshape) ==
  /\ Live(b)
  /\ LET arg == <<p, reshape>>
         S   == ProtoShape(p)
     IN
     IF reshape /\ ~ReshapeOk(S) THEN Fatal("FromProto", b, arg)
     ELSE IF ~reshape /\ ~ShapeEquals(b, p) THEN Fatal("FromProto", b, arg)
     ELSE
       LET r     == IF reshape THEN AfterReshape(b, S, ReshapeCount(S, 1, 1))
                    ELSE Current(b)
           wideV == Len(p.double_data) > 0
           wideG == Len(p.double_diff) > 0
           v     == IF wideV THEN p.double_data ELSE p.data
           g     == IF wideG THEN p.double_diff ELSE p.diff
           hasG  == Len(g) > 0
       IN
       IF r.data = NULL THEN Fatal("FromProto", b, arg)
       ELSE IF r.count # Len(v) THEN Fatal("FromProto", b, arg)
       ELSE IF r.count > r.mem[r.data].size THEN Undefined("FromProto", b, arg)
       ELSE IF hasG /\ r.count # Len(g) THEN Fatal("FromProto", b, arg)
       ELSE IF hasG /\ r.diff = NULL THEN Fatal("FromProto", b, arg)
       ELSE IF hasG /\ r.count > r.mem[r.diff].size THEN Undefined("FromProto", b, arg)
       ELSE
         LET m1 == [r.mem EXCEPT ![r.data].head = HeadAfter(@, "cpu", TRUE),
                                 ![r.data].vals = Stored(@, Converted(v, wideV))]
             m2 == IF hasG
                   THEN [m1 EXCEPT ![r.diff].head = HeadAfter(@, "cpu", TRUE),
                                   ![r.diff].vals = Stored(@, Converted(g, wideG))]
                   ELSE m1
             sy == \/ SyncsOn(r.mem[r.data].head, "cpu")
                   \/ hasG /\ SyncsOn(r.mem[r.diff].head, "cpu")
         IN  /\ Becomes(b, r)
             /\ mem' = m2
             /\ last' = WithSync(Call("FromProto", b, arg, "void"), sy)
             /\ UNCHANGED <<dtype, alive, net_quant, status>>

(* shape_stride_: Reshape(shape, shape_stride) does not store its second   *)
(* argument and nothing else writes the member, so it has no entries       *)
shape_stride(b) == <<>>

(* what a read past the end of shape_stride_ can give when it goes on *)
Garbage == {0}

(* the reads shape_stride_[0], ..., shape_stride_[rank - 1] *)
StrideReads(b) ==
  LET rank == Len(shape[b]) IN
    IF rank <= Len(shape_stride(b))
    THEN {[crash |-> FALSE, stride |-> SubSeq(shape_stride(b), 1, rank)]}
    ELSE {[crash |-> TRUE, stride |-> <<>>]}
           \cup {[crash |-> FALSE, stride |-> [i \in 1..rank |-> x]] : x \in Garbage}

(* the payload fields Blob<float>::ToProto and Blob<double>::ToProto fill *)
Filled(p, v, g) ==
  IF dtype = "float"
  THEN [p EXCEPT !.data = v, !.diff = g]
  ELSE [p EXCEPT !.double_data = v, !.double_diff = g]

(* the element types with the generic ToProto, which packs raw bytes: two  *)
(* of them, of one and of two bytes                                        *)
PackedTypes == {"int8_t", "int16_t"}

(* the bytes of a non-negative element of n bytes, low byte first *)
Bytes(v, n) == [k \in 1..n |-> (v \div (256 ^ (k - 1))) % 256]

(* reinterpret_cast<const char*>(...) over byte_count() bytes: the bytes of *)
(* the elements w, one element after the other                             *)
RECURSIVE Packed(_, _)
Packed(w, n) ==
  IF Len(w) = 0 THEN <<>> ELSE Bytes(Head(w), n) \o Packed(Tail(w), n)

(* lines 814-822: set_packed_data with the values and then, when           *)
(* write_diff, set_packed_data again with the gradients                    *)
FilledPacked(p, v, g, write_diff) ==
  LET p1 == [p EXCEPT !.double_data = <<>>, !.double_diff = <<>>,
                      !.packed_data = Packed(v, SizeOf(dtype))]
  IN  IF write_diff THEN [p1 EXCEPT !.packed_data = Packed(g, SizeOf(dtype))]
      ELSE p1

(* Blob<float>::ToProto, Blob<double>::ToProto, the generic                *)
(* Blob<Dtype>::ToProto and Blob<bool>::ToProto (NOT_IMPLEMENTED)          *)
ToProto(b, p, write_diff) ==
  /\ Live(b)
  /\ LET arg == <<p, write_diff>> IN
     \E sr \in StrideReads(b) :
       IF dtype = "bool" THEN Fatal("ToProto", b, arg)
       ELSE IF sr.crash THEN Undefined("ToProto", b, arg)
       ELSE IF data[b] = NULL THEN Fatal("ToProto", b, arg)
       ELSE IF count[b] > mem[data[b]].size THEN Undefined("ToProto", b, arg)
       ELSE IF write_diff /\ diff[b] = NULL THEN Fatal("ToProto", b, arg)
       ELSE IF write_diff /\ count[b] > mem[diff[b]].size
       THEN Undefined("ToProto", b, arg)
       ELSE
         LET q  == [p EXCEPT !.dims = shape[b],
                             !.stride = p.stride \o sr.stride,
                             !.data_type = dtype]
             v  == Elems(data[b], count[b])
             g  == IF write_diff THEN Elems(diff[b], count[b]) ELSE <<>>
             m1 == [mem EXCEPT ![data[b]].head = HeadAfter(@, "cpu", FALSE)]
             m2 == IF write_diff
                   THEN [m1 EXCEPT ![diff[b]].head = HeadAfter(@, "cpu", FALSE)]
                   ELSE m1
             sy == \/ SyncsOn(mem[data[b]].head, "cpu")
                   \/ write_diff /\ SyncsOn(mem[diff[b]].head, "cpu")
         IN  /\ mem' = m2
             /\ last' = WithSync(Call("ToProto", b, arg,
                                       IF dtype \in DTypes THEN Filled(q, v, g)
                                       ELSE FilledPacked(q, v, g, write_diff)), sy)
             /\ UNCHANGED <<dtype, alive, shape, count, capacity, data, diff,
                            shape_data, net_quant, status, max_count>>

----------------------------------------------------------------------------
(* The quantized accessor forms: cpu_data(out), cpu_diff(out),             *)
(* gpu_data(out), gpu_diff(out), set_cpu_data(in), set_cpu_diff(in),       *)
(* set_gpu_data(in), set_gpu_diff(in)                                      *)

(* a quantizer is associated with tensor b *)
set_net_quant(b) ==
  /\ Live(b)
  /\ ~net_quant[b]
  /\ net_quant' = [net_quant EXCEPT ![b] = TRUE]
  /\ last' = Call("set_net_quant", b, <<>>, "void")
  /\ UNCHANGED <<dtype, alive, shape, count, capacity, data, diff, shape_data,
                 mem, status, max_count>>

(* the quantizer's transforms, lossy: Forward (compress) maps the caller's *)
(* values to stored ones, Backward (expand) maps stored values back        *)
Forward(w) == [i \in 1..Len(w) |-> w[i] \div 2]
Backward(w) == [i \in 1..Len(w) |-> 2 * w[i]]

(* the caller's array for a quantized write: compresses to Ramp(v, n) *)
QuantIn(v, n) == [i \in 1..n |-> 2 * Ramp(v, n)[i] + 1]

(* a variant that takes the buffer through the const pointer *)
QuantHeadConst(h, loc) == HeadAfter(h, loc, FALSE)

(* the buffer is taken with SyncedMemory::mutable_cpu_data() in the cpu    *)
(* forms and mutable_gpu_data() in the gpu forms, reads included           *)
QuantHead(h, loc) == HeadAfter(h, loc, TRUE)

(* cpu_data(out), cpu_diff(out), gpu_data(out), gpu_diff(out): neither the *)
(* buffer handle nor net_quant_ is tested before it is dereferenced        *)
QuantRead(op, b, side, loc) ==
  /\ Live(b)
  /\ LET h == Handle(b, side) IN
       IF h = NULL THEN Undefined(op, b, <<>>)
       ELSE IF ~net_quant[b] THEN Undefined(op, b, <<>>)
       ELSE IF count[b] > mem[h].size THEN Undefined(op, b, <<>>)
       ELSE /\ mem' = [mem EXCEPT ![h].head = QuantHead(@, loc)]
            /\ last' = WithPath(WithSync(Call(op, b, <<>>, Backward(Elems(h, count[b]))),
                                         SyncsOn(mem[h].head, loc)), loc)
            /\ UNCHANGED <<dtype, alive, shape, count, capacity, data, diff,
                           shape_data, net_quant, status, max_count>>

(* set_cpu_data(in), set_cpu_diff(in), set_gpu_data(in), set_gpu_diff(in) *)
QuantWrite(op, b, side, loc, w) ==
  /\ Live(b)
  /\ LET h == Handle(b, side) IN
       IF h = NULL THEN Undefined(op, b, w)
       ELSE IF ~net_quant[b] THEN Undefined(op, b, w)
       ELSE IF count[b] > mem[h].size THEN Undefined(op, b, w)
       ELSE /\ mem' = [mem EXCEPT ![h].head = QuantHead(@, loc),
                                  ![h].vals = Stored(@, Forward(w))]
            /\ last' = WithPath(WithSync(Call(op, b, w, "void"),
                                         SyncsOn(mem[h].head, loc)), loc)
            /\ UNCHANGED <<dtype, alive, shape, count, capacity, data, diff,
                           shape_data, net_quant, status, max_count>>

cpu_data_out(b) == QuantRead("cpu_data(out)", b, "data", "cpu")
cpu_diff_out(b) == QuantRead("cpu_diff(out)", b, "diff", "cpu")
gpu_data_out(b) == QuantRead("gpu_data(out)", b, "data", "gpu")
gpu_diff_out(b) == QuantRead("gpu_diff(out)", b, "diff", "gpu")
set_cpu_data_in(b, v) ==
  QuantWrite("set_cpu_data(in)", b, "data", "cpu", QuantIn(v, count[b]))
set_cpu_diff_in(b, v) ==
  QuantWrite("set_cpu_diff(in)", b, "diff", "cpu", QuantIn(v, count[b]))
set_gpu_data_in(b, v) ==
  QuantWrite("set_gpu_data(in)", b, "data", "gpu", QuantIn(v, count[b]))
set_gpu_diff_in(b, v) ==
  QuantWrite("set_gpu_diff(in)", b, "diff", "gpu", QuantIn(v, count[b]))

----------------------------------------------------------------------------
(* No tensor exists yet; T is the set of element types of the build. *)
Start(T) ==
  /\ dtype \in T
  /\ alive = [b \in Blobs |-> FALSE]
  /\ shape = [b \in Blobs |-> <<>>]
  /\ count = [b \in Blobs |-> 0]
  /\ capacity = [b \in Blobs |-> 0]
  /\ data = [b \in Blobs |-> NULL]
  /\ diff = [b \in Blobs |-> NULL]
  /\ shape_data = [b \in Blobs |-> 0]
  /\ net_quant = [b \in Blobs |-> FALSE]
  /\ mem = [id \in BufIds |-> FreeBuf]
  /\ status = "running"
  /\ last = Call("none", "A", <<>>, "void")
  /\ max_count = [b \in Blobs |-> 0]

Init == Start({"float"})

----------------------------------------------------------------------------
(* Reshape alone, on one tensor *)

NextReshape ==
  \/ \E S \in Shapes \cup EdgeShapes : Construct("A", S)
  \/ \E S \in Shapes \cup EdgeShapes : Reshape("A", S)

SpecReshape == Init /\ [][NextReshape]_vars

----------------------------------------------------------------------------
(* Two tensors: A is reshaped, shares B's buffers and its own; both are    *)
(* written, read and destroyed.                                            *)

VectorShapes == {<<e>> : e \in Extents}

NextShare ==
  \/ \E b \in Blobs, S \in VectorShapes : Construct(b, S)
  \/ \E S \in VectorShapes : Reshape("A", S)
  \/ \E o \in Blobs : ShareData("A", o)
  \/ \E o \in Blobs : ShareDiff("A", o)
  \/ \E o \in Blobs : ShareDataBase("A", o)
  \/ \E o \in Blobs : ShareDiffBase("A", o)
  \/ \E b \in Blobs : mutable_cpu_data(b, MaxVal)
  \/ \E b \in Blobs : cpu_data(b)
  \/ \E b \in Blobs : Destroy(b)

SpecShare == Init /\ [][NextShare]_vars

----------------------------------------------------------------------------
(* Two tensors: A is reshaped, shares B's buffers and adopts caller        *)
(* storage.                                                                *)

NextSize ==
  \/ \E b \in Blobs, S \in VectorShapes : Construct(b, S)
  \/ \E S \in VectorShapes : Reshape("A", S)
  \/ \E o \in Blobs : ShareData("A", o)
  \/ \E o \in Blobs : ShareDiff("A", o)
  \/ \E p \in BOOLEAN : set_cpu_data("A", p, 0)
  \/ set_gpu_data("A", 0)

SpecSize == Init /\ [][NextSize]_vars

----------------------------------------------------------------------------
(* One tensor: raw access on both sides and the numeric operations *)

Factors == {2}

NextNum ==
  \/ \E S \in VectorShapes : Construct("A", S)
  \/ \E S \in VectorShapes : Reshape("A", S)
  \/ asum_data("A")
  \/ asum_diff("A")
  \/ sumsq_data("A")
  \/ sumsq_diff("A")
  \/ \E f \in Factors : scale_data("A", f)
  \/ \E f \in Factors : scale_diff("A", f)
  \/ cpu_data("A")
  \/ gpu_data("A")
  \/ cpu_diff("A")
  \/ gpu_diff("A")
  \/ mutable_cpu_data("A", MaxVal)
  \/ mutable_gpu_data("A", MaxVal)
  \/ mutable_cpu_diff("A", MaxVal)
  \/ mutable_gpu_diff("A", MaxVal)
  \/ Update("A")

SpecNum == Init /\ [][NextNum]_vars

----------------------------------------------------------------------------
(* Deserialization: tensor B reads messages from outside, in a build of    *)
(* either element type                                                     *)

InitProto == Start(DTypes)

(* messages in the legacy encoding: a 1 x 1 x 1 x e tensor, and one with   *)
(* only width set                                                          *)
LegacyProtos ==
  {[EmptyProto EXCEPT !.legacy = <<1, 1, 1, e>>, !.data = Ramp(1, e)] : e \in Extents}
    \cup {[EmptyProto EXCEPT !.legacy = <<0, 0, 0, 1>>]}

(* messages with a shape list, with and without gradients *)
ListProtos ==
  {[EmptyProto EXCEPT !.dims = <<e>>, !.data = Ramp(1, e),
                      !.diff = IF d THEN Ramp(0, e) ELSE <<>>] :
     e \in Extents, d \in BOOLEAN}

(* a message in the double encoding with a value no float holds *)
WideProtos ==
  {[EmptyProto EXCEPT !.dims = <<1>>, !.double_data = <<FloatExact + 1>>]}

(* messages FromProto rejects: a payload shorter than the shape's count, a *)
(* gradient payload longer than it, a negative extent                      *)
BadProtos ==
  {[EmptyProto EXCEPT !.dims = <<2>>, !.data = <<1>>],
   [EmptyProto EXCEPT !.dims = <<1>>, !.data = <<1>>, !.diff = <<1, 1>>],
   [EmptyProto EXCEPT !.dims = <<-1>>]}

ExternalProtos == LegacyProtos \cup ListProtos \cup WideProtos \cup BadProtos

NextProto ==
  \/ \E S \in VectorShapes : Construct("B", S)
  \/ set_cpu_data("B", TRUE, 0)
  \/ \E p \in ExternalProtos, r \in BOOLEAN : FromProto("B", p, r)

SpecProto == InitProto /\ [][NextProto]_vars

----------------------------------------------------------------------------
(* Round trips: tensor A is written and serialized into a fresh message,   *)
(* which tensor B then reads                                               *)

(* the message the preceding ToProto filled *)
Serialized ==
  IF last.op = "ToProto" /\ status = "running" THEN {last.ret} ELSE {}

NextTrip ==
  \/ \E S \in Shapes : Construct("A", S)
  \/ \E S \in VectorShapes : Construct("B", S)
  \/ mutable_cpu_data("A", MaxVal)
  \/ mutable_cpu_diff("A", MaxVal)
  \/ mutable_cpu_diff("B", MaxVal)
  \/ \E wd \in BOOLEAN : ToProto("A", EmptyProto, wd)
  \/ \E p \in Serialized, r \in BOOLEAN : FromProto("B", p, r)

SpecTrip == InitProto /\ [][NextTrip]_vars

----------------------------------------------------------------------------
(* Quantized access to one tensor, with and without a quantizer, from      *)
(* every residency state                                                   *)

NextQuant ==
  \/ \E S \in VectorShapes : Construct("A", S)
  \/ set_net_quant("A")
  \/ cpu_data("A")
  \/ gpu_data("A")
  \/ cpu_diff("A")
  \/ gpu_diff("A")
  \/ mutable_cpu_data("A", MaxVal)
  \/ mutable_gpu_diff("A", MaxVal)
  \/ cpu_data_out("A")
  \/ cpu_diff_out("A")
  \/ gpu_data_out("A")
  \/ gpu_diff_out("A")
  \/ set_cpu_data_in("A", MaxVal)
  \/ set_cpu_diff_in("A", MaxVal)
  \/ set_gpu_data_in("A", MaxVal)
  \/ set_gpu_diff_in("A", MaxVal)

SpecQuant == Init /\ [][NextQuant]_vars

----------------------------------------------------------------------------
(* Serialization of one tensor in a build of each element type *)

InitPack == Start(DTypes \cup PackedTypes \cup {"bool"})

NextPack ==
  \/ \E S \in {<<>>} \cup VectorShapes : Construct("A", S)
  \/ mutable_cpu_data("A", MaxVal)
  \/ mutable_cpu_diff("A", 0)
  \/ \E wd \in BOOLEAN : ToProto("A", EmptyProto, wd)

SpecPack == InitPack /\ [][NextPack]_vars

----------------------------------------------------------------------------
(* Properties *)

BufSize(id) == IF id = NULL THEN 0 ELSE mem[id].size

(* the product of the extents of S, axes 1..n *)
RECURSIVE Prod(_, _)
Prod(S, n) == IF n = 0 THEN 1 ELSE Prod(S, n - 1) * S[n]

(* C1: in every state reached by Reshape, ShareData/ShareDiff and          *)
(* set_cpu_data/set_gpu_data calls, the values buffer and the gradients    *)
(* buffer of each tensor hold at least count elements.                     *)
C1_BuffersHoldCount ==
  \A b \in Blobs : (status = "running" /\ alive[b]) =>
    /\ BufSize(data[b]) >= count[b]
    /\ BufSize(diff[b]) >= count[b]

Holders(id) ==
  Cardinality({b \in Blobs : alive[b] /\ data[b] = id})
    + Cardinality({b \in Blobs : alive[b] /\ diff[b] = id})

ShareOps == {"ShareData", "ShareDiff", "ShareDataBase", "ShareDiffBase"}

(* C5: A.ShareData(B) / A.ShareDiff(B) is fatal exactly when the counts    *)
(* differ; otherwise A's handle becomes B's buffer object and nothing is   *)
(* copied or changed in it; what is written through one tensor's accessor  *)
(* is what the other's accessor reads; and a buffer is allocated exactly   *)
(* as long as some tensor holds it, so that destroying or re-pointing one  *)
(* holder leaves the other's buffer allocated.                             *)
C5_Lifetime ==
  /\ \A b \in Blobs : alive[b] =>
       /\ (data[b] # NULL => mem[data[b]].alloc)
       /\ (diff[b] # NULL => mem[diff[b]].alloc)
  /\ \A id \in BufIds :
       /\ mem[id].rc = Holders(id)
       /\ mem[id].alloc <=> Holders(id) > 0

C5_ShareStep ==
  (last'.op \in ShareOps /\ last' # last) =>
    LET a == last'.b
        o == last'.arg
        values == last'.op \in {"ShareData", "ShareDataBase"}
        before == IF values THEN data ELSE diff
        after == IF values THEN data' ELSE diff'
    IN  /\ status' = "fatal" <=> count[a] # count[o]
        /\ status' = "running" =>
             /\ after[a] = before[o]
             /\ after[o] = before[o]
             /\ \A id \in BufIds : mem[id].alloc /\ mem'[id].alloc =>
                  /\ mem'[id].vals = mem[id].vals
                  /\ mem'[id].size = mem[id].size
                  /\ mem'[id].head = mem[id].head

C5_WriteSeenStep ==
  ( /\ last.op = "mutable_cpu_data" /\ status = "running"
    /\ last'.op = "cpu_data" /\ status' = "running"
    /\ data[last.b] = data[last'.b] ) =>
    \A i \in 1..Min(Len(last.arg), Len(last'.ret)) : last'.ret[i] = last.arg[i]

C5_Sharing == [](C5_Lifetime) /\ [][C5_ShareStep /\ C5_WriteSeenStep]_vars

(* C5 witness: A reads, through the buffer B allocated and A shares, what  *)
(* was written there, after B has been destroyed.                          *)
C5_Witness ==
  /\ last.op = "cpu_data" /\ last.b = "A" /\ status = "running"
  /\ ~alive["B"]
  /\ data["A"] # NULL /\ data["A"][1] = "B"
  /\ count["A"] = MaxExtent
  /\ last.ret = Ramp(MaxVal, MaxExtent)

RawDataOps == {"cpu_data", "gpu_data", "mutable_cpu_data", "mutable_gpu_data"}
RawDiffOps == {"cpu_diff", "gpu_diff", "mutable_cpu_diff", "mutable_gpu_diff"}
ReduceDataOps == {"asum_data", "sumsq_data"}
ReduceDiffOps == {"asum_diff", "sumsq_diff"}
ScaleDataOps == {"scale_data"}
ScaleDiffOps == {"scale_diff"}
DataOps == RawDataOps \cup ReduceDataOps \cup ScaleDataOps
DiffOps == RawDiffOps \cup ReduceDiffOps \cup ScaleDiffOps

(* the last call was an operation on tensor last.b whose operated buffer   *)
(* object is not allocated                                                 *)
OnUnallocated(ops) ==
  /\ last.op \in ops
  /\ alive[last.b]
  /\ \/ last.op \in DataOps /\ data[last.b] = NULL
     \/ last.op \in DiffOps /\ diff[last.b] = NULL
     \/ last.op = "Update" /\ data[last.b] = NULL

(* C6 as stated: every operation on a tensor whose values/gradients buffer *)
(* object is not allocated is a fatal error -- the raw accessors, Update,  *)
(* sum-of-abs, sum-of-squares and Scale alike.                             *)
C6_UnallocatedIsFatal ==
  OnUnallocated(DataOps \cup DiffOps \cup {"Update"}) => status \in {"fatal", "segv"}

(* C6 amended: on such a tensor the raw accessors are fatal; sum-of-abs    *)
(* and sum-of-squares return 0 and Scale returns, the process running on   *)
(* with the tensor unchanged; Update makes no check and dereferences the   *)
(* null handle, which is undefined behaviour and not a checked failure.    *)
C6_Outcome ==
  /\ OnUnallocated(RawDataOps \cup RawDiffOps) => status = "fatal"
  /\ OnUnallocated(ReduceDataOps \cup ReduceDiffOps) =>
       status = "running" /\ last.ret = 0 /\ last.path = "none"
  /\ OnUnallocated(ScaleDataOps \cup ScaleDiffOps) =>
       status = "running" /\ last.path = "none"
  /\ OnUnallocated({"Update"}) => status \in {"segv", "undefined"}

C6_NoEffectStep ==
  ( /\ last'.op \in ReduceDataOps \cup ReduceDiffOps \cup ScaleDataOps \cup ScaleDiffOps
    /\ \/ last'.op \in DataOps /\ data[last'.b] = NULL
       \/ last'.op \in DiffOps /\ diff[last'.b] = NULL ) =>
    UNCHANGED <<BlobVars, status>>

C6_UnallocatedOutcomes == [](C6_Outcome) /\ [][C6_NoEffectStep]_vars

(* C6 witness: sum-of-abs on a tensor only ever given count 0, which has   *)
(* no values buffer object, has returned 0.                                *)
C6_Witness ==
  /\ last.op = "asum_data" /\ status = "running"
  /\ alive[last.b] /\ data[last.b] = NULL /\ max_count[last.b] = 0
  /\ last.ret = 0

(* C2: under Reshape calls alone on a tensor constructed with capacity 0,  *)
(* capacity never decreases, always equals the largest count reached so    *)
(* far, and the values and gradients buffers hold exactly capacity         *)
(* elements (no buffer at all while capacity is 0).                        *)
C2_CapacityIsMax ==
  \A b \in Blobs : alive[b] =>
    /\ capacity[b] = max_count[b]
    /\ BufSize(data[b]) = capacity[b]
    /\ BufSize(diff[b]) = capacity[b]
    /\ (capacity[b] > 0 => data[b] # NULL /\ diff[b] # NULL /\ data[b] # diff[b])

C2_CapacityMonotone ==
  \A b \in Blobs : alive[b] /\ alive'[b] => capacity'[b] >= capacity[b]

C2_ReshapeTracksMax == [](C2_CapacityIsMax) /\ [][C2_CapacityMonotone]_vars

(* C2 witness: a reshape-down has happened: the count is below the         *)
(* capacity, which still is the historical maximum.                        *)
C2_Witness ==
  /\ last.op = "Reshape" /\ status = "running"
  /\ count["A"] < capacity["A"] /\ count["A"] > 0
  /\ capacity["A"] = max_count["A"]

(* C3: a Reshape whose new count is <= the current capacity returns false  *)
(* and leaves both buffer handles, the buffers and capacity unchanged; one *)
(* whose new count is > capacity replaces both buffers by new ones of      *)
(* count elements, sets capacity = count and returns true.                 *)
C3_Step ==
  (last'.op = "Reshape" /\ status' = "running") =>
    LET b == last'.b IN
      IF count'[b] <= capacity[b]
      THEN /\ last'.ret = FALSE
           /\ data'[b] = data[b] /\ diff'[b] = diff[b]
           /\ mem' = mem
           /\ capacity'[b] = capacity[b]
      ELSE /\ last'.ret = TRUE
           /\ data'[b] # data[b] /\ diff'[b] # diff[b]
           /\ data'[b] # NULL /\ diff'[b] # NULL /\ data'[b] # diff'[b]
           /\ mem'[data'[b]] = NewBuf(count'[b])
           /\ mem'[diff'[b]] = NewBuf(count'[b])
           /\ capacity'[b] = count'[b]

C3_ReshapeRealloc == [][C3_Step]_vars

(* C3 witness: a Reshape that returned true on a tensor that had buffers. *)
C3_Witness ==
  /\ last.op = "Reshape" /\ status = "running" /\ last.ret = TRUE
  /\ max_count[last.b] > 1

(* C4: a Reshape(S) that passes its checks leaves shape = S and count =    *)
(* the product of S's extents: 1 for the empty shape, 0 when an extent is  *)
(* 0.                                                                      *)
C4_CountIsProduct ==
  (last.op = "Reshape" /\ status = "running") =>
    LET b == last.b
        S == last.arg
    IN  /\ shape[b] = S
        /\ count[b] = Prod(S, Len(S))
        /\ (S = <<>> => count[b] = 1)
        /\ ((\E i \in 1..Len(S) : S[i] = 0) => count[b] = 0)

(* C4 witness: a rank-2 Reshape with a count that is neither extent. *)
C4_Witness ==
  /\ last.op = "Reshape" /\ status = "running"
  /\ Len(last.arg) = 2 /\ count[last.b] = MaxExtent * MaxExtent
(* the shape a message carries: the four legacy fields when any is set,    *)
(* the shape list otherwise                                                *)
MessageShape(p) == IF p.legacy # <<>> THEN p.legacy ELSE p.dims

ValidShape(S) ==
  /\ Len(S) <= kMaxBlobAxes
  /\ \A i \in 1..Len(S) : S[i] >= 0 /\ Prod(S, i) <= INT_MAX

(* the message's payloads have as many elements as its shape *)
WellFormed(p) ==
  LET n == Prod(MessageShape(p), Len(MessageShape(p))) IN
    /\ Len(IF Len(p.double_data) > 0 THEN p.double_data ELSE p.data) = n
    /\ Len(p.double_diff) \in {0, n}
    /\ Len(p.double_diff) > 0 \/ Len(p.diff) \in {0, n}

HasGradients(p) == Len(p.double_diff) > 0 \/ Len(p.diff) > 0

(* this step is FromProto(p, reshape) on tensor b *)
FromProtoStep(b, reshape) ==
  last'.op = "FromProto" /\ last'.b = b /\ last'.arg[2] = reshape

C7_MismatchStep ==
  \A b \in Blobs :
    (FromProtoStep(b, FALSE) /\ ~ShapeEqualsOf(shape[b], last'.arg[1])) =>
      status' = "fatal" /\ UNCHANGED BlobVars

C7_AdoptsStep ==
  \A b \in Blobs :
    ( /\ FromProtoStep(b, TRUE)
      /\ ValidShape(MessageShape(last'.arg[1]))
      /\ WellFormed(last'.arg[1]) ) =>
      /\ status' = "running"
      /\ shape'[b] = MessageShape(last'.arg[1])
      /\ ShapeEqualsOf(shape'[b], last'.arg[1])

(* C7 as stated: FromProto with reshape=false on a message whose shape     *)
(* does not match the tensor's is fatal before any element is copied; with *)
(* reshape=true it succeeds for every valid message shape, the tensor's    *)
(* shape becomes the message's and ShapeEquals(message) holds afterwards.  *)
C7_FromProtoShape == [][C7_MismatchStep /\ C7_AdoptsStep]_vars

(* after a Reshape to count n, the buffer h of tensor b has n elements *)
HasRoom(b, h, n) == n > capacity[b] \/ (h # NULL /\ mem[h].size >= n)

C7_AdoptsWithRoomStep ==
  \A b \in Blobs :
    LET p == last'.arg[1]
        n == Prod(MessageShape(p), Len(MessageShape(p)))
    IN  ( /\ FromProtoStep(b, TRUE)
          /\ ValidShape(MessageShape(p))
          /\ WellFormed(p)
          /\ HasRoom(b, data[b], n)
          /\ HasGradients(p) => HasRoom(b, diff[b], n) ) =>
          /\ status' = "running"
          /\ shape'[b] = MessageShape(p)
          /\ ShapeEqualsOf(shape'[b], p)
          /\ count'[b] = n

C7_NoBufferStep ==
  \A b \in Blobs :
    LET p == last'.arg[1]
        n == Prod(MessageShape(p), Len(MessageShape(p)))
    IN  ( /\ FromProtoStep(b, TRUE)
          /\ ValidShape(MessageShape(p))
          /\ n <= capacity[b]
          /\ data[b] = NULL ) =>
          status' = "fatal" /\ UNCHANGED BlobVars

(* C7 amended: reshape=false on a mismatched message is fatal before any   *)
(* element is copied; reshape=true with a valid shape and payloads of      *)
(* exactly count elements succeeds, adopts the message's shape and leaves  *)
(* ShapeEquals(message) true, provided the tensor then has buffers of      *)
(* count elements to copy into; a tensor with no values buffer object      *)
(* (never given a non-zero count) reading a zero-count message is fatal.   *)
C7_FromProtoOutcomes ==
  [][C7_MismatchStep /\ C7_AdoptsWithRoomStep /\ C7_NoBufferStep]_vars

(* C7 witness: a legacy message was read with reshape=true and the tensor  *)
(* has its four-axis shape and its payload.                                *)
C7_Witness ==
  /\ last.op = "FromProto" /\ last.arg[2] /\ status = "running"
  /\ has_legacy(last.arg[1])
  /\ shape[last.b] = last.arg[1].legacy
  /\ count[last.b] = MaxExtent
  /\ Elems(data[last.b], count[last.b]) = last.arg[1].data

(* the first n elements of buffer id in heap m *)
ElemsOf(m, id, n) == IF n = 0 THEN <<>> ELSE SubSeq(m[id].vals, 1, n)

C8_Serializes ==
  (last.op = "ToProto" /\ last.arg[1] = EmptyProto) => status = "running"

C8_TripStep ==
  \A R \in Blobs :
    ( /\ last.op = "ToProto" /\ status = "running" /\ last.arg[1] = EmptyProto
      /\ last'.op = "FromProto" /\ last'.b = R /\ R # last.b
      /\ last'.arg = <<last.ret, TRUE>> ) =>
      LET T  == last.b
          n  == count[T]
          wd == last.arg[2]
      IN  /\ status' = "running"
          /\ shape'[R] = shape[T]
          /\ ElemsOf(mem', data'[R], n) = ElemsOf(mem, data[T], n)
          /\ wd => ElemsOf(mem', diff'[R], n) = ElemsOf(mem, diff[T], n)
          /\ (~wd /\ n <= capacity[R]) =>
               /\ diff'[R] = diff[R]
               /\ diff[R] # NULL => mem'[diff[R]].vals = mem[diff[R]].vals

(* C8: for a float or double tensor T of any shape and contents, ToProto   *)
(* into a fresh message completes, and FromProto(msg, reshape=true) on     *)
(* another tensor of the same element type then gives it T's shape, T's    *)
(* values element for element, T's gradients when write_diff was true, and *)
(* leaves its own gradients as they were when write_diff was false.        *)
C8_RoundTrip == [](C8_Serializes) /\ [][C8_TripStep]_vars

QuantReadOps == {"cpu_data(out)", "cpu_diff(out)", "gpu_data(out)", "gpu_diff(out)"}
QuantWriteOps ==
  {"set_cpu_data(in)", "set_cpu_diff(in)", "set_gpu_data(in)", "set_gpu_diff(in)"}
QuantOps == QuantReadOps \cup QuantWriteOps
QuantCpuOps == {"cpu_data(out)", "cpu_diff(out)", "set_cpu_data(in)", "set_cpu_diff(in)"}
QuantDataOps == {"cpu_data(out)", "gpu_data(out)", "set_cpu_data(in)", "set_gpu_data(in)"}

(* the buffer handle a quantized accessor works on *)
QuantHandle(op, b) == IF op \in QuantDataOps THEN data[b] ELSE diff[b]

(* C9: on a tensor with no quantizer every quantized accessor form         *)
(* completes without failure and is a straight copy of count elements      *)
(* between the caller's buffer and the tensor's buffer.                    *)
C9_NoQuantizerCopies ==
  ( /\ last.op \in QuantOps
    /\ alive[last.b] /\ ~net_quant[last.b]
    /\ QuantHandle(last.op, last.b) # NULL ) =>
    /\ status = "running"
    /\ last.op \in QuantReadOps =>
         last.ret = Elems(QuantHandle(last.op, last.b), count[last.b])
    /\ last.op \in QuantWriteOps =>
         Elems(QuantHandle(last.op, last.b), count[last.b]) = last.arg

(* where the valid copy of a buffer with head hd lives *)
LivesOn(hd, loc) ==
  CASE hd = "HEAD_AT_CPU" -> loc = "cpu"
    [] hd = "HEAD_AT_GPU" -> loc = "gpu"
    [] OTHER -> TRUE

C10_ObliviousStep ==
  \A b \in Blobs :
    LET h == QuantHandle(last'.op, b) IN
      ( /\ last'.op \in QuantOps /\ last'.b = b
        /\ h # NULL /\ net_quant[b] /\ status' = "running" ) =>
        /\ ~last'.sync
        /\ LivesOn(mem[h].head, last'.path)
        /\ last'.op \in QuantReadOps => mem'[h].head = mem[h].head

(* C10 as stated: a quantized accessor call never triggers a host /        *)
(* accelerator synchronization, uses the quantizer entry point of the side *)
(* where the data currently lives, and a quantized read leaves the         *)
(* residency state of the buffer as it was.                                *)
C10_Oblivious == [][C10_ObliviousStep]_vars

C10_AccessorStep ==
  \A b \in Blobs :
    LET op  == last'.op
        h   == QuantHandle(op, b)
        loc == IF op \in QuantCpuOps THEN "cpu" ELSE "gpu"
    IN  (op \in QuantOps /\ last'.b = b) =>
          IF h = NULL \/ ~net_quant[b]
          THEN status' \in {"segv", "undefined"}
          ELSE mem[h].size >= count[b] =>
                 /\ status' = "running"
                 /\ last'.path = loc
                 /\ last'.sync =
                      (mem[h].head = IF loc = "cpu" THEN "HEAD_AT_GPU" ELSE "HEAD_AT_CPU")
                 /\ mem'[h].head = IF loc = "cpu" THEN "HEAD_AT_CPU" ELSE "HEAD_AT_GPU"

(* C10 amended: a quantized accessor uses the entry point its name says    *)
(* (the cpu forms the host one, the gpu forms the accelerator one)         *)
(* whatever the residency state; it takes the buffer through the mutable   *)
(* host or accelerator pointer, so it synchronizes exactly when the valid  *)
(* copy is on the other side only and leaves the buffer resident on its    *)
(* own side, reads included; with no quantizer or no buffer object the     *)
(* call is undefined.                                                      *)
C10_ByAccessor == [][C10_AccessorStep]_vars

(* C10 witness: a quantized host read of values that lived on the          *)
(* accelerator synchronized and left them host-resident.                   *)
C10_Witness ==
  /\ last.op = "cpu_data(out)" /\ status = "running"
  /\ net_quant[last.b]
  /\ last.sync /\ last.path = "cpu"
  /\ mem[data[last.b]].head = "HEAD_AT_CPU"
  /\ last.ret = Backward(Elems(data[last.b], count[last.b]))

NumericOps ==
  {"Update"} \cup ReduceDataOps \cup ReduceDiffOps \cup ScaleDataOps \cup ScaleDiffOps

(* the buffer whose residency state a numeric operation switches on *)
Operated(op, b) == IF op \in DataOps \cup {"Update"} THEN data[b] ELSE diff[b]

(* both buffers of b are allocated with room for count elements *)
Allocated(b) ==
  /\ data[b] # NULL /\ mem[data[b]].size >= count[b]
  /\ diff[b] # NULL /\ mem[diff[b]].size >= count[b]

C11_DispatchStep ==
  \A b \in Blobs :
    LET op == last'.op
        h  == Operated(op, b)
        hd == mem[h].head
        w  == Elems(h, count[b])
    IN  (op \in NumericOps /\ last'.b = b /\ Allocated(b)) =>
          CASE hd = "HEAD_AT_CPU" ->
                 /\ status' = "running" /\ last'.path = "cpu"
                 /\ mem'[h].head = "HEAD_AT_CPU"
            [] hd \in {"HEAD_AT_GPU", "SYNCED"} ->
                 /\ status' = "running" /\ last'.path = "gpu"
                 /\ mem'[h].head =
                      IF op \in ReduceDataOps \cup ReduceDiffOps THEN hd ELSE "HEAD_AT_GPU"
            [] OTHER ->
                 /\ op = "Update" => status' = "fatal"
                 /\ op # "Update" => status' = "running" /\ last'.path = "none"
                 /\ op \in ReduceDataOps \cup ReduceDiffOps => last'.ret = 0
                 /\ UNCHANGED BlobVars

C11_ResultStep ==
  \A b \in Blobs :
    LET op == last'.op
        h  == Operated(op, b)
        w  == Elems(h, count[b])
    IN  ( /\ op \in NumericOps /\ last'.b = b /\ Allocated(b)
          /\ mem[h].head # "UNINITIALIZED" ) =>
          /\ op \in {"asum_data", "asum_diff"} => last'.ret = SumAbs(w, count[b])
          /\ op \in {"sumsq_data", "sumsq_diff"} => last'.ret = Dot(w, w, count[b])
          /\ op \in ScaleDataOps \cup ScaleDiffOps =>
               \A i \in 1..count[b] : mem'[h].vals[i] = last'.arg * w[i]
          /\ op = "Update" =>
               \A i \in 1..count[b] :
                 mem'[h].vals[i] = w[i] - mem[diff[b]].vals[i]

(* C11: on a floating-point tensor with allocated buffers Update,          *)
(* sum-of-abs, sum-of-squares and Scale go by the residency state of the   *)
(* operated buffer: host-resident takes the host path, accelerator-        *)
(* resident or synchronized the accelerator path; uninitialized makes      *)
(* Update fatal, the reductions return zero and Scale a no-op, the buffer  *)
(* and its residency state left as they were.                              *)
C11_Dispatch == [][C11_DispatchStep /\ C11_ResultStep]_vars

(* C11 witness: sum-of-abs of a synchronized values buffer with non-zero   *)
(* contents ran on the accelerator and returned their sum.                 *)
C11_Witness ==
  /\ last.op = "asum_data" /\ status = "running"
  /\ Allocated(last.b)
  /\ mem[data[last.b]].head = "SYNCED"
  /\ last.path = "gpu"
  /\ last.ret > 0 /\ count[last.b] = MaxExtent

(* the failure condition of Reshape on shape S, by the extents alone:      *)
(* Prod(S, i - 1) is the running product when axis i is processed          *)
ReshapeFails(S) ==
  \/ Len(S) > kMaxBlobAxes
  \/ \E i \in 1..Len(S) : S[i] < 0
  \/ \E i \in 1..Len(S) :
       Prod(S, i - 1) # 0 /\ S[i] > INT_MAX \div Prod(S, i - 1)

(* C12: Reshape (and the constructor, which calls it) fails fatally        *)
(* exactly when the rank exceeds kMaxBlobAxes, an extent is negative, or   *)
(* at some axis the running product is non-zero and the extent exceeds     *)
(* INT_MAX divided by it, the test being skipped while the product is 0;   *)
(* when it does not fail no intermediate or final count exceeds INT_MAX.   *)
C12_ReshapeFailsExactly ==
  last.op \in {"Reshape", "Blob"} =>
    /\ (status = "fatal") <=> ReshapeFails(last.arg)
    /\ status = "running" =>
         /\ \A i \in 0..Len(last.arg) : Prod(last.arg, i) \in 0..INT_MAX
         /\ count[last.b] = Prod(last.arg, Len(last.arg))

(* C12 witness: a Reshape to 65536 x 65536 x 0, whose full product is 0,   *)
(* has failed at the second axis.                                          *)
C12_Witness ==
  /\ last.op = "Reshape" /\ status = "fatal"
  /\ last.arg = <<65536, 65536, 0>>
  /\ alive[last.b]

(* the elements a packed payload of n-byte elements decodes to *)
RECURSIVE Unpacked(_, _)
Unpacked(bytes, n) ==
  IF Len(bytes) < n THEN <<>>
  ELSE <<IF n = 1 THEN bytes[1] ELSE bytes[1] + 256 * bytes[2]>>
         \o Unpacked(SubSeq(bytes, n + 1, Len(bytes)), n)

(* the values and the gradients a message holds, by its encoding *)
ValuesIn(p) ==
  CASE p.data_type = "float" -> p.data
    [] p.data_type = "double" -> p.double_data
    [] OTHER -> Unpacked(p.packed_data, SizeOf(p.data_type))

GradientsIn(p) ==
  CASE p.data_type = "float" -> p.diff
    [] p.data_type = "double" -> p.double_diff
    [] OTHER -> <<>>

(* C13: for float, double and the element types with the packed raw-byte  *)
(* encoding, a ToProto that completes leaves the message holding the       *)
(* tensor's shape, the element-type tag and the contents of the values     *)
(* buffer, and with write_diff=true also the contents of the gradients     *)
(* buffer (in the float and double encodings, in their own field), with    *)
(* write_diff=false no gradients.                                          *)
C13_MessageHolds ==
  ( /\ last.op = "ToProto" /\ status = "running"
    /\ dtype \in DTypes \cup PackedTypes ) =>
    LET b == last.b
        p == last.ret
        n == count[b]
    IN  /\ p.dims = shape[b]
        /\ p.data_type = dtype
        /\ ValuesIn(p) = ElemsOf(mem, data[b], n)
        /\ (last.arg[2] /\ dtype \in DTypes) => GradientsIn(p) = ElemsOf(mem, diff[b], n)
        /\ ~last.arg[2] => GradientsIn(p) = <<>>

====
